---- MODULE Spec2Model ----
(***************************************************************************)
(* A model of the Truely process bridge (ProcessBridge.c): the global      *)
(* mutex and readiness flag, getAllProcesses with its two-phase sysctl     *)
(* enumeration and per-process enrichment, the window-property scans, and  *)
(* calculateFileSHA256.                                                    *)
(***************************************************************************)
EXTENDS Integers, Sequences, FiniteSets, TLC

VARIABLES
  mutex,                  \* g_bridge_mutex: [valid, owner]; owner 0 = unlocked
  g_bridge_initialized,   \* the readiness flag (0 / 1)
  pc,                     \* per thread: position inside the call it is executing
  call,                   \* per thread: the locals of the call it is executing
  ret,                    \* the call that returned in the last step, with its locals at the return
  csCount,                \* instrumentation: threads between lock and unlock of getAllProcesses
  win,                    \* one window-inspection call: window server state, argument, result
  sha                     \* one calculateFileSHA256 call: arguments, file, buffer, position

vars == <<mutex, g_bridge_initialized, pc, call, ret, csCount, win, sha>>

----------------------------------------------------------------------------
(* Bounds of the model *)

NumThreads == 2
MaxProcs == 2
MaxWindows == 2
MaxChunks == 2

Threads == 1..NumThreads
\* The pids a kernel descriptor may carry here: an invalid slot, the kernel's
\* slot, and two live processes.
Pids == {0 - 1, 0, 1, 2}

----------------------------------------------------------------------------
(* Status codes, ProcessBridge.h *)

BRIDGE_SUCCESS == 0
BRIDGE_ERROR_NULL_POINTER == 0 - 1
BRIDGE_ERROR_INVALID_PARAMETER == 0 - 2
BRIDGE_ERROR_MEMORY_ALLOCATION == 0 - 3
BRIDGE_ERROR_SYSTEM_CALL == 0 - 4
BRIDGE_ERROR_FILE_ACCESS == 0 - 5

\* sizeof(struct kinfo_proc), the divisor of line 68
KinfoProcSize == 648

----------------------------------------------------------------------------
(* The window server and the window scans *)

\* A window dictionary: keys is the set of keys present in it.
Window(owner, x, y, w, h, sharing, layer, onscreen) ==
  [keys |-> {"pid", "bounds", "sharing", "layer"}, owner |-> owner,
   x |-> x, y |-> y, width |-> w, height |-> h,
   sharing |-> sharing, layer |-> layer, onscreen |-> onscreen]

\* Windows of pid 1 and pid 2 around every threshold of the scans.
WindowSamples ==
  { Window(1, 0, 0, 100, 100, 1, 0, TRUE),
    Window(1, 0 - 2000, 0 - 2000, 100, 100, 1, 0, FALSE),
    Window(1, 0 - 2000, 0 - 2000, 100, 100, 0, 3, FALSE),
    Window(1, 0 - 1000, 10000, 1, 1, 1, 2, TRUE),
    Window(1, 0 - 1001, 0, 100, 100, 1, 1, FALSE),
    Window(1, 0, 10001, 100, 100, 1, 1, FALSE),
    Window(1, 10001, 0, 100, 100, 1, 8, TRUE),
    Window(1, 0, 0, 0, 100, 1, 0, TRUE),
    Window(1, 0, 0, 100, 0, 1, 0, TRUE),
    Window(1, 0, 0, 100, 100, 0, 1, TRUE),
    Window(2, 0 - 2000, 0 - 2000, 100, 100, 0, 3, TRUE),
    [Window(1, 0 - 2000, 0, 100, 100, 0, 3, TRUE) EXCEPT !.keys = {"bounds", "sharing", "layer"}],
    [Window(1, 0 - 2000, 0, 100, 100, 0, 3, TRUE) EXCEPT !.keys = {"pid"}] }

\* The window server: down (headless), or up with its windows in z-order.
ServerDown == [up |-> FALSE, windows |-> <<>>]

ServerStates ==
  {ServerDown} \cup
  UNION { {[up |-> TRUE, windows |-> ws] : ws \in [1..n -> WindowSamples]} : n \in 0..MaxWindows }

\* The server states the enumeration pass meets at each of its scans: down, or
\* up with an off-screen, capture-excluded overlay of pid 1 and an ordinary
\* on-screen window of pid 2.
EnumServerStates ==
  { ServerDown,
    [up |-> TRUE,
     windows |-> <<Window(1, 0 - 2000, 0 - 2000, 100, 100, 0, 3, FALSE),
                   Window(2, 0, 0, 100, 100, 1, 0, TRUE)>>] }

IsOnScreen(w) == w.onscreen

\* CGWindowListCopyWindowInfo(option, kCGNullWindowID): a null list when the
\* window server is unavailable.
CGWindowListCopyWindowInfo(server, option) ==
  IF ~server.up THEN [null |-> TRUE, items |-> <<>>]
  ELSE [null |-> FALSE,
        items |-> IF option = "OnScreenOnly" THEN SelectSeq(server.windows, IsOnScreen)
                  ELSE server.windows]

OwnedBy(w, pid) == "pid" \in w.keys /\ w.owner = pid

\* The geometry test of detectScreenEvasion, lines 314-316.
SuspiciousBounds(w) ==
  \/ w.x < 0 - 1000 \/ w.y < 0 - 1000
  \/ w.width < 1 \/ w.height < 1
  \/ w.x > 10000 \/ w.y > 10000

\* kCGWindowSharingNone = 0, line 328.
SharingNone(w) == w.sharing = 0

\* Layers above the normal application windows, line 370.
ElevatedLayer(w) == w.layer > 2

RECURSIVE CountOwned(_, _, _, _)
CountOwned(items, pid, i, count) ==
  IF i > Len(items) THEN count
  ELSE CountOwned(items, pid, i + 1,
                  IF OwnedBy(items[i], pid) THEN count + 1 ELSE count)

getWindowCount(server, pid) ==
  IF pid <= 0 THEN 0
  ELSE LET windowList == CGWindowListCopyWindowInfo(server, "OnScreenOnly")
       IN IF windowList.null THEN 0 ELSE CountOwned(windowList.items, pid, 1, 0)

\* A window counted once however many of the two tests it meets.
EvasionOfWindowOnce(w, pid) ==
  IF OwnedBy(w, pid)
        /\ (("bounds" \in w.keys /\ SuspiciousBounds(w))
              \/ ("sharing" \in w.keys /\ SharingNone(w)))
  THEN 1 ELSE 0

\* One iteration of the loop of detectScreenEvasion: what window w adds.
EvasionOfWindow(w, pid) ==
  IF OwnedBy(w, pid)
  THEN (IF "bounds" \in w.keys /\ SuspiciousBounds(w) THEN 1 ELSE 0)
       + (IF "sharing" \in w.keys /\ SharingNone(w) THEN 1 ELSE 0)
  ELSE 0

RECURSIVE ScanEvasion(_, _, _, _)
ScanEvasion(items, pid, i, suspiciousCount) ==
  IF i > Len(items) THEN suspiciousCount
  ELSE ScanEvasion(items, pid, i + 1, suspiciousCount + EvasionOfWindow(items[i], pid))

detectScreenEvasion(server, pid) ==
  IF pid <= 0 THEN 0
  ELSE LET windowList == CGWindowListCopyWindowInfo(server, "All")
       IN IF windowList.null THEN 0 ELSE ScanEvasion(windowList.items, pid, 1, 0)

RECURSIVE ScanElevated(_, _, _, _)
ScanElevated(items, pid, i, elevatedCount) ==
  IF i > Len(items) THEN elevatedCount
  ELSE ScanElevated(items, pid, i + 1,
                    IF OwnedBy(items[i], pid) /\ "layer" \in items[i].keys
                       /\ ElevatedLayer(items[i])
                    THEN elevatedCount + 1 ELSE elevatedCount)

detectElevatedLayers(server, pid) ==
  IF pid <= 0 THEN 0
  ELSE LET windowList == CGWindowListCopyWindowInfo(server, "All")
       IN IF windowList.null THEN 0 ELSE ScanElevated(windowList.items, pid, 1, 0)

RECURSIVE ScanSharingDisabled(_, _, _, _)
ScanSharingDisabled(items, pid, i, n) ==
  IF i > Len(items) THEN n
  ELSE ScanSharingDisabled(items, pid, i + 1,
                           IF OwnedBy(items[i], pid) /\ "sharing" \in items[i].keys
                              /\ SharingNone(items[i])
                           THEN n + 1 ELSE n)

\* The WindowProperties struct before the callee has written it.
UnsetProperties ==
  [set |-> FALSE, windowCount |-> 0, sharingStateDisabled |-> 0,
   elevatedLayers |-> 0, suspiciousPatterns |-> 0]

\* getWindowProperties(pid, properties): the status and the struct afterwards.
getWindowProperties(server, pid, hasProperties) ==
  IF ~hasProperties THEN [status |-> BRIDGE_ERROR_NULL_POINTER, properties |-> UnsetProperties]
  ELSE IF pid <= 0 THEN [status |-> BRIDGE_ERROR_INVALID_PARAMETER, properties |-> UnsetProperties]
  ELSE
    LET filled == [set |-> TRUE,
                   windowCount |-> getWindowCount(server, pid),
                   elevatedLayers |-> detectElevatedLayers(server, pid),
                   suspiciousPatterns |-> detectScreenEvasion(server, pid),
                   sharingStateDisabled |-> 0]
        windowList == CGWindowListCopyWindowInfo(server, "All")
    IN IF windowList.null
       THEN [status |-> BRIDGE_ERROR_SYSTEM_CALL, properties |-> filled]
       ELSE [status |-> BRIDGE_SUCCESS,
             properties |-> [filled EXCEPT !.sharingStateDisabled =
                               ScanSharingDisabled(windowList.items, pid, 1, 0)]]

----------------------------------------------------------------------------
(* Calls of the window functions against a changing window server *)

\* The result fields of win when the last step was no call.
NoWinCall == [op |-> "none", pid |-> 0, status |-> 0, result |-> 0,
              properties |-> UnsetProperties]

WinState(server, c) == [server |-> server, call |-> c]

\* The window server starts or stops.
WindowServerToggles ==
  /\ win' = WinState([up |-> ~win.server.up, windows |-> <<>>], NoWinCall)
  /\ UNCHANGED <<mutex, g_bridge_initialized, pc, call, ret, csCount, sha>>

WindowOpens ==
  /\ win.server.up
  /\ Len(win.server.windows) < MaxWindows
  /\ \E w \in WindowSamples :
       win' = WinState([win.server EXCEPT !.windows = Append(@, w)], NoWinCall)
  /\ UNCHANGED <<mutex, g_bridge_initialized, pc, call, ret, csCount, sha>>

WindowCloses ==
  /\ win.server.up
  /\ \E k \in 1..Len(win.server.windows) :
       win' = WinState([win.server EXCEPT !.windows =
                          SubSeq(@, 1, k - 1) \o SubSeq(@, k + 1, Len(@))], NoWinCall)
  /\ UNCHANGED <<mutex, g_bridge_initialized, pc, call, ret, csCount, sha>>

\* A call of one of the three counting functions.
CallWindowScan ==
  /\ \E pid \in Pids, op \in {"getWindowCount", "detectScreenEvasion", "detectElevatedLayers"} :
       win' = WinState(win.server,
                [NoWinCall EXCEPT !.op = op, !.pid = pid,
                   !.result = CASE op = "getWindowCount" -> getWindowCount(win.server, pid)
                                [] op = "detectScreenEvasion" -> detectScreenEvasion(win.server, pid)
                                [] OTHER -> detectElevatedLayers(win.server, pid)])
  /\ UNCHANGED <<mutex, g_bridge_initialized, pc, call, ret, csCount, sha>>

CallGetWindowProperties ==
  /\ \E pid \in Pids, hasProperties \in BOOLEAN :
       LET r == getWindowProperties(win.server, pid, hasProperties)
       IN win' = WinState(win.server,
                   [NoWinCall EXCEPT !.op = IF hasProperties THEN "getWindowProperties"
                                            ELSE "getWindowProperties(NULL)",
                                     !.pid = pid, !.status = r.status,
                                     !.properties = r.properties])
  /\ UNCHANGED <<mutex, g_bridge_initialized, pc, call, ret, csCount, sha>>

----------------------------------------------------------------------------
(* calculateFileSHA256 *)

CC_SHA256_DIGEST_LENGTH == 32

\* The chunk size of the read loop, line 210.
bufferSize == 4096

HexDigitsLower == <<"0", "1", "2", "3", "4", "5", "6", "7", "8", "9", "a", "b", "c", "d", "e", "f">>
HexDigitsUpper == <<"0", "1", "2", "3", "4", "5", "6", "7", "8", "9", "A", "B", "C", "D", "E", "F">>

\* "%02X" for "%02x".
HexByteUpper(b) == <<HexDigitsUpper[(b \div 16) + 1], HexDigitsUpper[(b % 16) + 1]>>

\* What snprintf(..., 3, "%02x", b) writes before its terminator.
HexByte(b) == <<HexDigitsLower[(b \div 16) + 1], HexDigitsLower[(b % 16) + 1]>>

\* The digests CC_SHA256_Final may deliver: 32 bytes each.
DigestSamples ==
  { [k \in 1..CC_SHA256_DIGEST_LENGTH |-> b] : b \in {0, 9, 171, 255} }
  \cup { [k \in 1..CC_SHA256_DIGEST_LENGTH |-> (k * 37) % 256] }

\* The caller's buffer of the given size before the call.
CallerBuffer(size) == [k \in 1..size |-> "?"]

\* A write of character c at offset k (0-based) of the buffer.
Poke(buf, k, c) == IF k < Len(buf) THEN [buf EXCEPT ![k + 1] = c] ELSE buf

NoSha == [pc |-> "none", filePath |-> "none", hasBuffer |-> FALSE, size |-> 0,
          buf |-> <<>>, status |-> 0, remaining |-> 0, readError |-> FALSE,
          hash |-> <<>>, i |-> 0]

\* The file sizes tried: empty, short, and up to MaxChunks full chunks.
FileSizes == {0, 100} \cup {n * bufferSize : n \in 1..MaxChunks} \cup {bufferSize + 100}

ShaDone(c, status) == sha' = [c EXCEPT !.pc = "done", !.status = status]

\* Lines 169-185: the argument checks and fopen. The path names no file
\* ("missing"), or a file that may still fail to open.
ShaCall ==
  /\ sha.pc = "none"
  /\ \E filePath \in {"null", "", "missing", "file"}, hasBuffer \in BOOLEAN,
        size \in {64, 65, 66}, fileSize \in FileSizes, opens \in BOOLEAN :
       LET c == [NoSha EXCEPT !.filePath = filePath, !.hasBuffer = hasBuffer,
                              !.size = size,
                              !.buf = IF hasBuffer THEN CallerBuffer(size) ELSE <<>>]
       IN IF filePath = "null" \/ ~hasBuffer THEN ShaDone(c, BRIDGE_ERROR_NULL_POINTER)
          ELSE IF size < 65 THEN ShaDone(c, BRIDGE_ERROR_INVALID_PARAMETER)
          ELSE IF filePath = "" THEN ShaDone(c, BRIDGE_ERROR_INVALID_PARAMETER)
          ELSE IF filePath = "missing" \/ ~opens THEN ShaDone(c, BRIDGE_ERROR_FILE_ACCESS)
          ELSE sha' = [c EXCEPT !.pc = "seek", !.remaining = fileSize]
  /\ UNCHANGED <<mutex, g_bridge_initialized, pc, call, ret, csCount, win>>

\* Lines 188-202: fseek to the end, ftell, fseek back.
ShaSeek ==
  /\ sha.pc = "seek"
  /\ \/ ShaDone(sha, BRIDGE_ERROR_FILE_ACCESS)
     \/ sha' = [sha EXCEPT !.pc = "init"]
  /\ UNCHANGED <<mutex, g_bridge_initialized, pc, call, ret, csCount, win>>

\* Lines 204-208.
ShaInit ==
  /\ sha.pc = "init"
  /\ \/ ShaDone(sha, BRIDGE_ERROR_SYSTEM_CALL)
     \/ sha' = [sha EXCEPT !.pc = "read"]
  /\ UNCHANGED <<mutex, g_bridge_initialized, pc, call, ret, csCount, win>>

\* Lines 214-225: one fread that delivers bytes (all that is asked for, or
\* fewer when the read fails midway), and the update with them.
ShaReadChunk ==
  /\ sha.pc = "read"
  /\ sha.remaining > 0 /\ ~sha.readError
  /\ LET want == IF sha.remaining < bufferSize THEN sha.remaining ELSE bufferSize
     IN \E bytesRead \in {want, want - 1} :
          /\ bytesRead > 0
          /\ \/ ShaDone(sha, BRIDGE_ERROR_SYSTEM_CALL)
             \/ sha' = [sha EXCEPT !.remaining = @ - bytesRead,
                                   !.readError = bytesRead < want]
  /\ UNCHANGED <<mutex, g_bridge_initialized, pc, call, ret, csCount, win>>

\* Lines 214 and 228-238: fread delivers nothing (end of file, or an error),
\* the loop ends; ferror, fclose and CC_SHA256_Final.
ShaFinish ==
  /\ sha.pc = "read"
  /\ \E failsNow \in BOOLEAN :
       /\ sha.remaining = 0 \/ sha.readError \/ failsNow
       /\ IF sha.readError \/ failsNow
          THEN ShaDone(sha, BRIDGE_ERROR_FILE_ACCESS)
          ELSE \/ ShaDone(sha, BRIDGE_ERROR_SYSTEM_CALL)
               \/ \E hash \in DigestSamples :
                    sha' = [sha EXCEPT !.pc = "hex", !.hash = hash, !.i = 0]
  /\ UNCHANGED <<mutex, g_bridge_initialized, pc, call, ret, csCount, win>>

\* Lines 241-246: one byte of the hex loop; snprintf writes two digits and a
\* terminator, and a short write ends the call.
ShaHexByte ==
  /\ sha.pc = "hex"
  /\ sha.i < CC_SHA256_DIGEST_LENGTH
  /\ LET digits == HexByte(sha.hash[sha.i + 1])
         written == Len(digits)
         b1 == Poke(Poke(Poke(sha.buf, sha.i * 2, digits[1]),
                         sha.i * 2 + 1, digits[2]), sha.i * 2 + 2, "NUL")
     IN IF written # 2
        THEN ShaDone([sha EXCEPT !.buf = b1], BRIDGE_ERROR_SYSTEM_CALL)
        ELSE sha' = [sha EXCEPT !.buf = b1, !.i = @ + 1]
  /\ UNCHANGED <<mutex, g_bridge_initialized, pc, call, ret, csCount, win>>

\* Lines 247-249.
ShaTerminate ==
  /\ sha.pc = "hex"
  /\ sha.i >= CC_SHA256_DIGEST_LENGTH
  /\ ShaDone([sha EXCEPT !.buf = Poke(@, CC_SHA256_DIGEST_LENGTH * 2, "NUL")], BRIDGE_SUCCESS)
  /\ UNCHANGED <<mutex, g_bridge_initialized, pc, call, ret, csCount, win>>

\* The caller has the status and the buffer.
ShaReturn ==
  /\ sha.pc = "done"
  /\ sha' = NoSha
  /\ UNCHANGED <<mutex, g_bridge_initialized, pc, call, ret, csCount, win>>

----------------------------------------------------------------------------
(* The mutex *)

\* A lock that excludes nobody.
CanAcquireAlways(m) == TRUE

\* pthread_mutex_lock returns once the mutex is free; on a destroyed mutex it
\* returns at once (with EINVAL).
CanAcquire(m) == ~m.valid \/ m.owner = 0

\* The return value of pthread_mutex_lock: 0, or EINVAL on a destroyed mutex.
LockResult(m) == IF m.valid THEN 0 ELSE 22

Acquire(m, t) == IF m.valid THEN [m EXCEPT !.owner = t] ELSE m

\* An unlock that is left out.
UnlockForgotten(m, t) == m

\* pthread_mutex_unlock by thread t (EINVAL / EPERM leave the mutex as it is).
pthread_mutex_unlock(m, t) ==
  IF m.valid /\ m.owner = t THEN [m EXCEPT !.owner = 0] ELSE m

\* pthread_mutex_destroy: a free mutex becomes invalid; a destroyed one stays
\* so (EINVAL); destroying a locked mutex is undefined: the library either
\* refuses (EBUSY) or invalidates it under its owner.
DestroyOutcomes(m) ==
  IF ~m.valid THEN {m}
  ELSE IF m.owner = 0 THEN {[m EXCEPT !.valid = FALSE]}
  ELSE {m, [m EXCEPT !.valid = FALSE]}

----------------------------------------------------------------------------
(* getAllProcesses *)

\* One SystemProcessInfo slot of the malloc'ed result, not yet written.
UninitSlot ==
  [pid |-> 0, name |-> "uninit", path |-> "uninit", windowCount |-> 0,
   screenEvasionCount |-> 0, elevatedLayerCount |-> 0, suspiciousWindowCount |-> 0]

\* The slot after lines 92-100.
ZeroedSlot(pid) ==
  [pid |-> pid, name |-> "", path |-> "", windowCount |-> 0,
   screenEvasionCount |-> 0, elevatedLayerCount |-> 0, suspiciousWindowCount |-> 0]

\* The composite flag with "and" for "or".
SuspiciousWindowCountBoth(screenEvasionCount, elevatedLayerCount) ==
  IF screenEvasionCount > 0 /\ elevatedLayerCount > 0 THEN 1 ELSE 0

\* Line 111.
SuspiciousWindowCount(screenEvasionCount, elevatedLayerCount) ==
  IF screenEvasionCount > 0 \/ elevatedLayerCount > 0 THEN 1 ELSE 0

\* Line 89: kernel / invalid slots are skipped.
SkipPid(pid) == pid <= 0

\* getProcessName(pid, name, sizeof name): the status and the name buffer, which
\* getAllProcesses has zeroed; found says whether proc_pidinfo knows the pid.
getProcessName(pid, found) ==
  IF pid <= 0 THEN [status |-> BRIDGE_ERROR_INVALID_PARAMETER, name |-> ""]
  ELSE IF ~found THEN [status |-> BRIDGE_ERROR_SYSTEM_CALL, name |-> ""]
  ELSE [status |-> BRIDGE_SUCCESS, name |-> "name"]

\* getProcessPath(pid, path, sizeof path): on failure path[0] = 0.
getProcessPath(pid, found) ==
  IF pid <= 0 THEN [status |-> BRIDGE_ERROR_INVALID_PARAMETER, path |-> ""]
  ELSE IF ~found THEN [status |-> BRIDGE_ERROR_SYSTEM_CALL, path |-> ""]
  ELSE [status |-> BRIDGE_SUCCESS, path |-> "path"]

\* valid_count++ moved out of the name check.
NextValidCountAlways(valid_count, nameStatus) == valid_count + 1

\* Lines 103 and 113: valid_count advances only past a record whose name resolved.
NextValidCount(valid_count, nameStatus) ==
  IF nameStatus = BRIDGE_SUCCESS THEN valid_count + 1 ELSE valid_count

\* The lock result not looked at, as in cleanupProcessBridge.
GetLockResultIgnored(mutex_result) == FALSE

\* Line 36: the lock result decides whether the call goes on.
GetLockFailed(mutex_result) == mutex_result # 0

\* The locals of a thread that is in no call.
NoCall ==
  [fn |-> "none", arg |-> "none", status |-> 0, acquired |-> FALSE,
   nlock |-> 0, nunlock |-> 0, queries |-> 0,
   size |-> 0, cap |-> 0, grew |-> FALSE, proc_list |-> <<>>, proc_count |-> 0,
   out |-> "unchanged", slots |-> <<>>, i |-> 0, valid_count |-> 0,
   nameRes |-> <<>>, pathRes |-> <<>>, oob |-> FALSE]

\* The process tables the kernel may hold: distinct pids, kernel slots included.
Tables ==
  UNION { {tb \in [1..n -> Pids] : \A a, b \in 1..n : a # b => tb[a] # tb[b]}
          : n \in 0..MaxProcs }

\* No call returned in the last step.
NoReturn == [thread |-> 0, locals |-> NoCall]

\* Thread t returns status from a call with locals l: the thread is free for
\* its next call, and ret shows what it returned.
Returns(t, l, status) ==
  /\ pc' = [pc EXCEPT ![t] = "idle"]
  /\ call' = [call EXCEPT ![t] = NoCall]
  /\ ret' = [thread |-> t, locals |-> [l EXCEPT !.status = status]]

\* Thread t goes on to position p with locals l.
Continues(t, p, l) ==
  /\ pc' = [pc EXCEPT ![t] = p]
  /\ call' = [call EXCEPT ![t] = l]
  /\ ret' = NoReturn

\* A return from inside the critical section: unlock, then return.
UnlockAndReturn(t, l, status) ==
  /\ mutex' = pthread_mutex_unlock(mutex, t)
  /\ csCount' = csCount - 1
  /\ Returns(t, [l EXCEPT !.nunlock = @ + 1], status)

\* Lines 29-32.
CallGetAllProcesses(t) ==
  /\ pc[t] = "idle"
  /\ \E arg \in {"null", "ptr"} :
       LET l == [NoCall EXCEPT !.fn = "getAllProcesses", !.arg = arg]
       IN IF arg = "null"
          THEN Returns(t, l, BRIDGE_ERROR_NULL_POINTER)
          ELSE Continues(t, "get_lock", l)
  /\ UNCHANGED <<mutex, g_bridge_initialized, csCount, win, sha>>

\* Lines 35-38.
GetLock(t) ==
  /\ pc[t] = "get_lock"
  /\ CanAcquire(mutex)
  /\ LET mutex_result == LockResult(mutex)
     IN IF GetLockFailed(mutex_result)
        THEN /\ Returns(t, call[t], BRIDGE_ERROR_SYSTEM_CALL)
             /\ UNCHANGED <<mutex, csCount>>
        ELSE /\ mutex' = Acquire(mutex, t)
             /\ csCount' = csCount + 1
             /\ Continues(t, "get_probe",
                          [call[t] EXCEPT !.acquired = (mutex_result = 0),
                                          !.nlock = IF mutex_result = 0 THEN @ + 1 ELSE @])
  /\ UNCHANGED <<g_bridge_initialized, win, sha>>

\* Lines 44-52: the size probe. The kernel reports room for n descriptors.
GetProbe(t) ==
  /\ pc[t] = "get_probe"
  /\ LET l == [call[t] EXCEPT !.queries = @ + 1]
     IN \/ UnlockAndReturn(t, l, BRIDGE_ERROR_SYSTEM_CALL)
        \/ \E n \in 0..MaxProcs :
             LET size == n * KinfoProcSize
             IN IF size = 0
                THEN UnlockAndReturn(t, [l EXCEPT !.size = size], BRIDGE_ERROR_INVALID_PARAMETER)
                ELSE /\ Continues(t, "get_alloc", [l EXCEPT !.size = size])
                     /\ UNCHANGED <<mutex, csCount>>
  /\ UNCHANGED <<g_bridge_initialized, win, sha>>

\* Lines 55-59: malloc(size).
GetAllocList(t) ==
  /\ pc[t] = "get_alloc"
  /\ \/ UnlockAndReturn(t, call[t], BRIDGE_ERROR_MEMORY_ALLOCATION)
     \/ /\ Continues(t, "get_fetch", [call[t] EXCEPT !.cap = call[t].size])
        /\ UNCHANGED <<mutex, csCount>>
  /\ UNCHANGED <<g_bridge_initialized, win, sha>>

\* Lines 62-73: the data fetch into the buffer of cap bytes, against the live
\* table tb. The kernel copies what fits; when the table does not fit, the
\* query fails with ENOMEM. Then proc_count and its check.
GetFetch(t) ==
  /\ pc[t] = "get_fetch"
  /\ LET l == [call[t] EXCEPT !.queries = @ + 1]
     IN \/ UnlockAndReturn(t, l, BRIDGE_ERROR_SYSTEM_CALL)
        \/ \E tb \in Tables :
             IF Len(tb) * KinfoProcSize > l.cap
             THEN UnlockAndReturn(t, [l EXCEPT !.grew = TRUE, !.size = l.cap],
                                  BRIDGE_ERROR_SYSTEM_CALL)
             ELSE LET size == Len(tb) * KinfoProcSize
                      proc_count == size \div KinfoProcSize
                      m == [l EXCEPT !.size = size, !.proc_list = tb,
                                     !.proc_count = proc_count]
                  IN IF proc_count <= 0
                     THEN UnlockAndReturn(t, m, BRIDGE_ERROR_INVALID_PARAMETER)
                     ELSE /\ Continues(t, "get_alloc_out", m)
                          /\ UNCHANGED <<mutex, csCount>>
  /\ UNCHANGED <<g_bridge_initialized, win, sha>>

\* Lines 76-83: *processes = malloc(proc_count * sizeof(SystemProcessInfo)).
GetAllocOut(t) ==
  /\ pc[t] = "get_alloc_out"
  /\ \/ UnlockAndReturn(t, [call[t] EXCEPT !.out = "null"], BRIDGE_ERROR_MEMORY_ALLOCATION)
     \/ /\ Continues(t, "get_loop",
                     [call[t] EXCEPT !.out = "allocated",
                                     !.slots = [k \in 1..call[t].proc_count |-> UninitSlot],
                                     !.i = 0, !.valid_count = 0])
        /\ UNCHANGED <<mutex, csCount>>
  /\ UNCHANGED <<g_bridge_initialized, win, sha>>

\* A write of record r to slot index k (0-based) of the result array.
WriteSlot(l, k, r) ==
  IF k < Len(l.slots) THEN [l EXCEPT !.slots[k + 1] = r] ELSE [l EXCEPT !.oob = TRUE]

\* Lines 85-115: one iteration of the loop. Name and path resolution succeed
\* or fail; every window scan queries the window server anew.
GetLoopIter(t) ==
  /\ pc[t] = "get_loop"
  /\ call[t].i < call[t].proc_count
  /\ LET l == call[t]
         inBuf == (l.i + 1) * KinfoProcSize <= l.cap /\ l.i < Len(l.proc_list)
         pid == IF inBuf THEN l.proc_list[l.i + 1] ELSE 0
         l1 == [l EXCEPT !.i = @ + 1, !.oob = @ \/ ~inBuf]
     IN IF SkipPid(pid)
        THEN Continues(t, "get_loop", [l1 EXCEPT !.nameRes = Append(@, FALSE),
                                                 !.pathRes = Append(@, FALSE)])
        ELSE \E nameOk \in BOOLEAN :
               LET nm == getProcessName(pid, nameOk)
                   l2 == [l1 EXCEPT !.valid_count = NextValidCount(@, nm.status)]
               IN IF nm.status # BRIDGE_SUCCESS
                  THEN Continues(t, "get_loop",
                                 [WriteSlot(l2, l.valid_count, ZeroedSlot(pid))
                                    EXCEPT !.nameRes = Append(@, FALSE),
                                           !.pathRes = Append(@, FALSE)])
                  ELSE \E pathOk \in BOOLEAN, s1, s2, s3 \in EnumServerStates :
                         LET sec == detectScreenEvasion(s2, pid)
                             elc == detectElevatedLayers(s3, pid)
                             info == [pid |-> pid, name |-> nm.name,
                                      path |-> getProcessPath(pid, pathOk).path,
                                      windowCount |-> getWindowCount(s1, pid),
                                      screenEvasionCount |-> sec,
                                      elevatedLayerCount |-> elc,
                                      suspiciousWindowCount |-> SuspiciousWindowCount(sec, elc)]
                         IN Continues(t, "get_loop",
                                      [WriteSlot(l2, l.valid_count, info)
                                         EXCEPT !.nameRes = Append(@, TRUE),
                                                !.pathRes = Append(@, pathOk)])
  /\ UNCHANGED <<mutex, csCount, g_bridge_initialized, win, sha>>

\* Lines 117-119.
GetFinish(t) ==
  /\ pc[t] = "get_loop"
  /\ call[t].i >= call[t].proc_count
  /\ UnlockAndReturn(t, call[t], call[t].valid_count)
  /\ UNCHANGED <<g_bridge_initialized, win, sha>>

----------------------------------------------------------------------------
(* initializeProcessBridge and cleanupProcessBridge *)

CallInitialize(t) ==
  /\ pc[t] = "idle"
  /\ Continues(t, "init_lock", [NoCall EXCEPT !.fn = "initializeProcessBridge"])
  /\ UNCHANGED <<mutex, g_bridge_initialized, csCount, win, sha>>

\* Lines 9-12.
InitLock(t) ==
  /\ pc[t] = "init_lock"
  /\ CanAcquire(mutex)
  /\ LET result == LockResult(mutex)
     IN IF result # 0
        THEN /\ Returns(t, call[t], BRIDGE_ERROR_SYSTEM_CALL)
             /\ UNCHANGED mutex
        ELSE /\ mutex' = Acquire(mutex, t)
             /\ Continues(t, "init_cs", [call[t] EXCEPT !.acquired = TRUE, !.nlock = @ + 1])
  /\ UNCHANGED <<g_bridge_initialized, csCount, win, sha>>

\* Lines 14-19.
InitSetAndUnlock(t) ==
  /\ pc[t] = "init_cs"
  /\ g_bridge_initialized' = IF g_bridge_initialized = 0 THEN 1 ELSE g_bridge_initialized
  /\ mutex' = pthread_mutex_unlock(mutex, t)
  /\ Returns(t, [call[t] EXCEPT !.nunlock = @ + 1], BRIDGE_SUCCESS)
  /\ UNCHANGED <<csCount, win, sha>>

CallCleanup(t) ==
  /\ pc[t] = "idle"
  /\ Continues(t, "cl_lock", [NoCall EXCEPT !.fn = "cleanupProcessBridge"])
  /\ UNCHANGED <<mutex, g_bridge_initialized, csCount, win, sha>>

\* Line 23: the result of the lock is not looked at.
CleanupLock(t) ==
  /\ pc[t] = "cl_lock"
  /\ CanAcquire(mutex)
  /\ mutex' = Acquire(mutex, t)
  /\ Continues(t, "cl_cs", [call[t] EXCEPT !.acquired = (LockResult(mutex) = 0)])
  /\ UNCHANGED <<g_bridge_initialized, csCount, win, sha>>

\* Lines 24-25.
CleanupClearAndUnlock(t) ==
  /\ pc[t] = "cl_cs"
  /\ g_bridge_initialized' = 0
  /\ mutex' = pthread_mutex_unlock(mutex, t)
  /\ Continues(t, "cl_destroy", call[t])
  /\ UNCHANGED <<csCount, win, sha>>

\* Line 26, then the return.
CleanupDestroy(t) ==
  /\ pc[t] = "cl_destroy"
  /\ \E m \in DestroyOutcomes(mutex) : mutex' = m
  /\ Returns(t, call[t], 0)
  /\ UNCHANGED <<g_bridge_initialized, csCount, win, sha>>

----------------------------------------------------------------------------
(* Specifications *)

BridgeInit ==
  /\ mutex = [valid |-> TRUE, owner |-> 0]
  /\ g_bridge_initialized = 0
  /\ pc = [t \in Threads |-> "idle"]
  /\ call = [t \in Threads |-> NoCall]
  /\ ret = NoReturn
  /\ csCount = 0

Init == BridgeInit /\ win = WinState(ServerDown, NoWinCall) /\ sha = NoSha

\* The steps of getAllProcesses and initializeProcessBridge.
EnumNext ==
  \E t \in Threads :
    \/ CallGetAllProcesses(t) \/ GetLock(t) \/ GetProbe(t) \/ GetAllocList(t)
    \/ GetFetch(t) \/ GetAllocOut(t) \/ GetLoopIter(t) \/ GetFinish(t)
    \/ CallInitialize(t) \/ InitLock(t) \/ InitSetAndUnlock(t)

CleanupNext ==
  \E t \in Threads :
    CallCleanup(t) \/ CleanupLock(t) \/ CleanupClearAndUnlock(t) \/ CleanupDestroy(t)

Next == EnumNext \/ CleanupNext

Spec == Init /\ [][Next]_vars

\* The window functions called against a window server that starts, stops,
\* and opens and closes windows.
WinNext ==
  \/ WindowServerToggles \/ WindowOpens \/ WindowCloses
  \/ CallWindowScan \/ CallGetWindowProperties

WinSpec == Init /\ [][WinNext]_vars

\* calculateFileSHA256 called again and again.
ShaNext ==
  \/ ShaCall \/ ShaSeek \/ ShaInit \/ ShaReadChunk \/ ShaFinish
  \/ ShaHexByte \/ ShaTerminate \/ ShaReturn

ShaSpec == Init /\ [][ShaNext]_vars

----------------------------------------------------------------------------
(* Properties of the enumeration pass *)

\* Thread t is between the successful lock and the matching unlock of getAllProcesses.
InEnumerateEnrich(t) ==
  pc[t] \in {"get_probe", "get_alloc", "get_fetch", "get_alloc_out", "get_loop"}

\* Thread t has just returned from getAllProcesses(&processes).
Returned(t) ==
  ret.thread = t /\ ret.locals.fn = "getAllProcesses" /\ ret.locals.arg = "ptr"

\* C1: at most one thread is inside the enumerate+enrich critical section, and
\* the counter incremented on entry and decremented on exit never exceeds 1.
C1_MutualExclusion ==
  /\ csCount <= 1
  /\ Cardinality({t \in Threads : InEnumerateEnrich(t)}) <= 1

\* One thread is in the loop of the pass while another waits for the lock.
C1_Witness ==
  \E t, u \in Threads :
    t # u /\ pc[t] = "get_loop" /\ pc[u] = "get_lock" /\ csCount = 1

\* The table indices whose descriptor is to be surfaced: pid > 0, name resolved.
Kept(l) == {k \in 1..Len(l.proc_list) : l.proc_list[k] > 0 /\ l.nameRes[k]}

\* The table index of the j-th surfaced descriptor.
KthKept(l, j) ==
  CHOOSE k \in Kept(l) : Cardinality({k2 \in Kept(l) : k2 <= k}) = j

\* C2: a successful call returns exactly the descriptors with pid > 0 whose name
\* resolved, in table order, packed in slots 0..count-1; a failed path lookup
\* leaves the path empty and keeps the record.
C2_ResultIsFilteredTable ==
  \A t \in Threads :
    (Returned(t) /\ ret.locals.status >= 0) =>
      LET l == ret.locals
      IN /\ l.status = Cardinality(Kept(l))
         /\ l.status <= Len(l.slots)
         /\ \A j \in 1..l.status :
              LET k == KthKept(l, j)
              IN /\ l.slots[j].pid = l.proc_list[k]
                 /\ l.slots[j].pid > 0
                 /\ l.slots[j].name = "name"
                 /\ l.slots[j].path = (IF l.pathRes[k] THEN "path" ELSE "")

\* A two-entry table whose first name lookup failed and whose second record
\* lost only its path: one record is returned, in slot 0.
C2_Witness ==
  \E t \in Threads :
    /\ Returned(t) /\ ret.locals.status = 1
    /\ Len(ret.locals.proc_list) = 2
    /\ ret.locals.proc_list[1] > 0 /\ ~ret.locals.nameRes[1]
    /\ ret.locals.nameRes[2] /\ ~ret.locals.pathRes[2]
    /\ ret.locals.slots[1].pid = ret.locals.proc_list[2]

\* C3: the call tolerates the process set changing between probe and fetch:
\* whether the table shrank or grew it still completes with records, and it
\* never accesses memory past the buffer or the record array.
C3_ToleratesResize ==
  \A t \in Threads :
    Returned(t) =>
      /\ ~ret.locals.oob
      /\ (ret.locals.grew => ret.locals.status >= 0)

\* C4: a structural failure returns a negative status and leaves the caller's
\* pointer unchanged or null; a failed lock acquisition performs no query.
C4_StructuralFailure ==
  \A t \in Threads :
    Returned(t) =>
      LET l == ret.locals
      IN /\ (l.out # "allocated" => l.status < 0)
         /\ (l.status < 0 => l.out \in {"unchanged", "null"})
         /\ (~l.acquired => l.queries = 0 /\ l.status < 0)

\* The lock could not be acquired (the mutex was destroyed): -4, no query made.
C4_Witness ==
  \E t \in Threads :
    /\ Returned(t) /\ ~ret.locals.acquired
    /\ ret.locals.status = BRIDGE_ERROR_SYSTEM_CALL
    /\ ret.locals.queries = 0 /\ ret.locals.out = "unchanged"

\* C7: in every record of a result, suspiciousWindowCount is 1 exactly when
\* screenEvasionCount > 0 or elevatedLayerCount > 0, and 0 otherwise.
C7_SuspiciousIffEvasionOrElevated ==
  \A t \in Threads :
    call[t].fn = "getAllProcesses" =>
      \A j \in 1..call[t].valid_count :
        LET r == call[t].slots[j]
        IN /\ r.suspiciousWindowCount \in {0, 1}
           /\ (r.suspiciousWindowCount = 1 <=>
                 (r.screenEvasionCount > 0 \/ r.elevatedLayerCount > 0))

\* The window server changed between the two scans: a returned record has
\* evasion signals, no elevated layer, and is flagged.
C7_Witness ==
  \E t \in Threads :
    /\ Returned(t) /\ ret.locals.status >= 1
    /\ ret.locals.slots[1].screenEvasionCount > 0
    /\ ret.locals.slots[1].elevatedLayerCount = 0
    /\ ret.locals.slots[1].suspiciousWindowCount = 1

\* C9: cleanup clears the flag and destroys the lock only while no other thread
\* holds the lock or is inside the critical section.
C9_DestroyOnlyWhenFree ==
  [][\A t \in Threads :
       /\ (pc[t] = "cl_destroy" /\ pc'[t] # "cl_destroy")
             => (mutex.owner = 0 /\ \A u \in Threads : ~InEnumerateEnrich(u))
       /\ (pc[t] = "cl_cs" /\ pc'[t] # "cl_cs")
             => (mutex.owner \in {0, t} /\ \A u \in Threads : ~InEnumerateEnrich(u))
    ]_vars

----------------------------------------------------------------------------
(* Progress of getAllProcesses and initializeProcessBridge *)

\* The steps of a call once it is made, other than waiting for the lock: every
\* OS query and allocation returns.
Proceed(t) ==
  \/ GetProbe(t) \/ GetAllocList(t) \/ GetFetch(t) \/ GetAllocOut(t)
  \/ GetLoopIter(t) \/ GetFinish(t) \/ InitSetAndUnlock(t)

\* Threads calling getAllProcesses and initializeProcessBridge for ever, under
\* a fair scheduler: a running thread keeps running, and a thread that waits
\* for a lock that is free again and again gets it.
LiveSpec ==
  /\ Init
  /\ [][EnumNext]_vars
  /\ \A t \in Threads :
       WF_vars(Proceed(t)) /\ SF_vars(GetLock(t)) /\ SF_vars(InitLock(t))

\* C10: a call that acquires the lock releases it exactly once before it
\* returns, on every path; a thread waiting for the lock eventually enters its
\* critical section, and every call eventually returns.
C10_LockReleasedAndProgress ==
  /\ [](\A t \in Threads :
          /\ call[t].nunlock <= call[t].nlock /\ call[t].nlock <= 1
          /\ pc[t] = "idle" => mutex.owner # t
          /\ ret.thread = t => ret.locals.nunlock = ret.locals.nlock)
  /\ \A t \in Threads :
       /\ (pc[t] = "get_lock") ~> (pc[t] = "get_probe")
       /\ (pc[t] = "init_lock") ~> (pc[t] = "init_cs")
       /\ (pc[t] # "idle") ~> (pc[t] = "idle")

\* A getAllProcesses caller is blocked on the lock that a thread inside
\* initializeProcessBridge holds.
C10_Witness ==
  \E t, u \in Threads :
    t # u /\ pc[t] = "get_lock" /\ pc[u] = "init_cs" /\ mutex.owner = u

----------------------------------------------------------------------------
(* Properties of the window functions *)

\* The windows of the list that pid owns and that meet the geometry rule.
OffScreenOrCollapsed(ws, pid) ==
  {k \in 1..Len(ws) :
     /\ "pid" \in ws[k].keys /\ ws[k].owner = pid /\ "bounds" \in ws[k].keys
     /\ \/ ws[k].x < 0 - 1000 \/ ws[k].y < 0 - 1000
        \/ ws[k].x > 10000 \/ ws[k].y > 10000
        \/ ws[k].width < 1 \/ ws[k].height < 1}

\* The windows of the list that pid owns and that are excluded from capture.
NotCapturable(ws, pid) ==
  {k \in 1..Len(ws) :
     /\ "pid" \in ws[k].keys /\ ws[k].owner = pid
     /\ "sharing" \in ws[k].keys /\ ws[k].sharing = 0}

\* C5: with the window server unavailable every window function behaves as on
\* an empty list and reports no error: the counts are 0, and
\* getWindowProperties returns Success with all four fields 0.
C5_UnavailableIsEmpty ==
  (~win.server.up /\ win.call.pid > 0) =>
    /\ win.call.op \in {"getWindowCount", "detectScreenEvasion", "detectElevatedLayers"}
         => win.call.result = 0
    /\ win.call.op = "getWindowProperties" =>
         /\ win.call.status = BRIDGE_SUCCESS
         /\ win.call.properties.windowCount = 0
         /\ win.call.properties.sharingStateDisabled = 0
         /\ win.call.properties.elevatedLayers = 0
         /\ win.call.properties.suspiciousPatterns = 0

\* C6: for pid > 0, detectScreenEvasion is the number of the pid's windows that
\* meet the geometry rule plus the number of its windows that are not
\* capturable; the thresholds themselves do not trigger the geometry rule.
C6_EvasionIsSumOfBothRules ==
  (win.call.op = "detectScreenEvasion" /\ win.call.pid > 0 /\ win.server.up) =>
    win.call.result =
      Cardinality(OffScreenOrCollapsed(win.server.windows, win.call.pid))
      + Cardinality(NotCapturable(win.server.windows, win.call.pid))

\* One off-screen, not capturable window of pid 1 beside one that sits exactly
\* on the thresholds: the score is 2.
C6_Witness ==
  /\ win.call.op = "detectScreenEvasion" /\ win.call.pid = 1 /\ win.server.up
  /\ Len(win.server.windows) = 2
  /\ win.server.windows[1] = Window(1, 0 - 2000, 0 - 2000, 100, 100, 0, 3, FALSE)
  /\ win.server.windows[2] = Window(1, 0 - 1000, 10000, 1, 1, 1, 2, TRUE)
  /\ win.call.result = 2

----------------------------------------------------------------------------
(* Properties of calculateFileSHA256 *)

LowerHexChars == {HexDigitsLower[k] : k \in 1..16}

\* C8: the hash buffer is written on the Success path only: every failing
\* outcome leaves it as it was, a nonexistent path yields FileAccessFailure,
\* and on Success it holds 64 lowercase hex characters and a terminator.
C8_BufferWrittenOnlyOnSuccess ==
  /\ sha.pc \in {"seek", "init", "read"} => sha.buf = CallerBuffer(sha.size)
  /\ sha.pc = "done" =>
       /\ sha.status # BRIDGE_SUCCESS =>
            sha.buf = (IF sha.hasBuffer THEN CallerBuffer(sha.size) ELSE <<>>)
       /\ (sha.filePath = "missing" /\ sha.hasBuffer /\ sha.size >= 65) =>
            sha.status = BRIDGE_ERROR_FILE_ACCESS
       /\ sha.status = BRIDGE_SUCCESS =>
            /\ Len(sha.buf) >= 65
            /\ \A k \in 1..64 : sha.buf[k] \in LowerHexChars
            /\ sha.buf[65] = "NUL"
            /\ \A k \in 66..Len(sha.buf) : sha.buf[k] = "?"

\* A file of more than one chunk hashed into a 66-byte buffer: the digest
\* ab...ab, its terminator, and the last byte of the buffer untouched.
C8_Witness ==
  /\ sha.pc = "done" /\ sha.status = BRIDGE_SUCCESS /\ sha.size = 66
  /\ sha.buf[1] = "a" /\ sha.buf[64] = "b" /\ sha.buf[65] = "NUL" /\ sha.buf[66] = "?"

====
